---------------------------- MODULE Spec2Model ----------------------------
(***************************************************************************)
(* BucketAccessControlClient (src/client/bucket_access_control.rs): the    *)
(* five operations create_using, list, read, update and delete as a state  *)
(* machine.  Every call is an asynchronous unit that suspends while the    *)
(* credential provider answers get_headers(), while the transport answers  *)
(* send(), and while the body is read by json().  The collaborators'       *)
(* answers are the inputs of the actions.                                  *)
(*                                                                         *)
(* Strings that end up in a URL are sequences of one-character strings.    *)
(***************************************************************************)
EXTENDS Integers, Sequences, FiniteSets, TLC

VARIABLES
    bucket_acl_url, \* the handle's field: the collection URL
    pc,             \* per call: "idle", "get_headers", "send", "json", "done"
    op,             \* per call: the operation invoked
    arg,            \* per call: the argument passed at call time
    url,            \* per call: the local `url` of read, update, delete
    headers,        \* per call: what get_headers() answered
    request,        \* per call: the HTTP requests issued, in order
    response,       \* per call: what send() answered
    body,           \* per call: the body json() read
    trace,          \* per call: the collaborator calls made, in order
    result          \* per call: the value the call returned

vars == <<bucket_acl_url, pc, op, arg, url, headers, request, response, body,
          trace, result>>

-----------------------------------------------------------------------------
(* Bounds *)

\* Longest identifier of a user, group, domain or project entity.
MaxIdLen == 2
\* Number of call sites that share one handle in ConcSpec.
NCalls == 2

Calls == 1 .. NCalls

-----------------------------------------------------------------------------
(* Values *)

Nil == [kind |-> "Nil"]
Unit == [kind |-> "Unit"]

Ok(v) == [kind |-> "Ok", value |-> v]
Err(e) == [kind |-> "Err", error |-> e]

\* crate::Error, the three kinds of the error channel.
Google(e) == [variant |-> "Google", status |-> e.code, message |-> e.message]
Transport == [variant |-> "Transport"]
Decode == [variant |-> "Decode"]

\* Entity, a closed variant type.
AllUsers == [variant |-> "AllUsers"]
AllAuthenticatedUsers == [variant |-> "AllAuthenticatedUsers"]
User(i) == [variant |-> "User", id |-> i]
Group(i) == [variant |-> "Group", id |-> i]
Domain(d) == [variant |-> "Domain", id |-> d]
Project(t, i) == [variant |-> "Project", team |-> t, id |-> i]

\* Entity's canonical string: user-{id}, group-{id}, domain-{d},
\* project-{team}-{id}, allUsers, allAuthenticatedUsers.
to_string(e) ==
    CASE e.variant = "User" -> <<"u", "s", "e", "r", "-">> \o e.id
      [] e.variant = "Group" -> <<"g", "r", "o", "u", "p", "-">> \o e.id
      [] e.variant = "Domain" -> <<"d", "o", "m", "a", "i", "n", "-">> \o e.id
      [] e.variant = "Project" ->
            <<"p", "r", "o", "j", "e", "c", "t", "-">> \o e.team \o <<"-">> \o e.id
      [] e.variant = "AllUsers" -> <<"a", "l", "l", "U", "s", "e", "r", "s">>
      [] e.variant = "AllAuthenticatedUsers" ->
            <<"a", "l", "l", "A", "u", "t", "h", "e", "n", "t", "i", "c", "a", "t",
              "e", "d", "U", "s", "e", "r", "s">>

\* crate::percent_encode on one character: every character that is unsafe
\* in a path segment is escaped, '/' and '%' included.
encode_char(ch) ==
    CASE ch = "/" -> <<"%", "2", "F">>
      [] ch = "@" -> <<"%", "4", "0">>
      [] ch = "%" -> <<"%", "2", "5">>
      [] ch = " " -> <<"%", "2", "0">>
      [] OTHER -> <<ch>>

RECURSIVE percent_encode(_)
percent_encode(s) ==
    IF s = <<>> THEN <<>> ELSE encode_char(Head(s)) \o percent_encode(Tail(s))

\* reqwest's StatusCode::is_success: the 2xx class.
is_success(status) == status \in 200 .. 299

-----------------------------------------------------------------------------
(* Response bodies and their decoding *)

EntryBody(x) == [form |-> "entry", entry |-> x]
ListBody(xs) == [form |-> "list", items |-> xs]
ErrorBody(c, m) == [form |-> "error", code |-> c, message |-> m]
MalformedBody == [form |-> "malformed"]
EmptyBody == [form |-> "empty"]

\* Response<T>: either the decoded T or the server's error object.
Success(v) == [tag |-> "Success", value |-> v]
Error(e) == [tag |-> "Error", error |-> e]

\* response.json::<Response<BucketAccessControl>>()
json_entry(b) ==
    CASE b.form = "entry" -> Ok(Success(b.entry))
      [] b.form = "error" -> Ok(Error([code |-> b.code, message |-> b.message]))
      [] OTHER -> Err(Decode)

\* response.json::<Response<ListResponse<BucketAccessControl>>>()
json_list(b) ==
    CASE b.form = "list" -> Ok(Success([items |-> b.items]))
      [] b.form = "error" -> Ok(Error([code |-> b.code, message |-> b.message]))
      [] OTHER -> Err(Decode)

\* response.json() strictly as the error object.
json_error(b) ==
    CASE b.form = "error" -> Ok([code |-> b.code, message |-> b.message])
      [] OTHER -> Err(Decode)

\* `?` on a Response<T>: the error object becomes Error::Google.
into_result(r) == IF r.tag = "Success" THEN Ok(r.value) ELSE Err(Google(r.error))

-----------------------------------------------------------------------------
(* Inputs *)

IdChars == {"a", "/", "@", "%"}
Ids == UNION {[1 .. n -> IdChars] : n \in 1 .. MaxIdLen}
Teams == {<<"o", "w", "n", "e", "r", "s">>}
Roles == {"OWNER", "READER"}

Entities ==
    {AllUsers, AllAuthenticatedUsers}
        \cup {User(i) : i \in Ids} \cup {Group(i) : i \in Ids}
        \cup {Domain(i) : i \in Ids} \cup {Project(t, i) : t \in Teams, i \in Ids}

\* create::BucketAccessControl and BucketAccessControl values.
NewEntries == [entity : Entities, role : Roles]
Entries == [entity : Entities, role : Roles, id : {"id"}]

BaseUrls == {<<"/", "b", "/", "k", "/", "a", "c", "l">>}

ServerEntry == [entity |-> AllUsers, role |-> "READER", id |-> "id"]
Messages == {"m1", "m2"}

Statuses == {200, 204, 400, 403, 500}
Bodies ==
    {EntryBody(ServerEntry), ListBody(<<>>), ListBody(<<ServerEntry>>),
     MalformedBody, EmptyBody}
        \cup {ErrorBody(c, m) : c \in {400, 403}, m \in Messages}
HeaderErrors == {Transport, Decode, Google([code |-> 401, message |-> "m1"])}

\* The reduced inputs of the concurrent specification.
ConcEntities == {User(<<"a", "/">>)}
ConcNewEntries == [entity : ConcEntities, role : {"READER"}]
ConcEntries == [entity : ConcEntities, role : {"OWNER"}, id : {"id"}]
ConcStatuses == {204, 403}
ConcBodies ==
    {EntryBody(ServerEntry), ListBody(<<ServerEntry>>), EmptyBody,
     ErrorBody(403, "m1")}
ConcHeaderErrors == {Transport}

-----------------------------------------------------------------------------
(* The URL and the request of each operation *)

read_url(entity) == bucket_acl_url \o <<"/">> \o percent_encode(to_string(entity))

update_url(bucket_access_control) ==
    bucket_acl_url \o <<"/">> \o percent_encode(to_string(bucket_access_control.entity))

\* Faulty variant of delete_url: the entity is not percent-encoded.
delete_url_raw(bucket_access_control) ==
    bucket_acl_url \o <<"/">> \o to_string(bucket_access_control.entity)

delete_url(bucket_access_control) ==
    bucket_acl_url \o <<"/">> \o percent_encode(to_string(bucket_access_control.entity))

create_using_request(new_bucket_access_control) ==
    [verb |-> "POST", url |-> bucket_acl_url, body |-> new_bucket_access_control]

list_request == [verb |-> "GET", url |-> bucket_acl_url, body |-> Nil]

read_request(u) == [verb |-> "GET", url |-> u, body |-> Nil]

\* Faulty variant of update_request: the POST to the collection of create_using.
update_request_post(u, bucket_access_control) ==
    [verb |-> "POST", url |-> bucket_acl_url, body |-> bucket_access_control]

update_request(u, bucket_access_control) ==
    [verb |-> "PUT", url |-> u, body |-> bucket_access_control]

delete_request(u) == [verb |-> "DELETE", url |-> u, body |-> Nil]

\* The request call c builds once its headers are there.
build_request(c) ==
    CASE op[c] = "create_using" -> create_using_request(arg[c])
      [] op[c] = "list" -> list_request
      [] op[c] = "read" -> read_request(url[c])
      [] op[c] = "update" -> update_request(url[c], arg[c])
      [] op[c] = "delete" -> delete_request(url[c])

-----------------------------------------------------------------------------
(* What each operation does with the response *)

\* Faulty variant of delete_on_response: the body is read on every status.
delete_on_response_always_json(status) == "json"

\* delete: Ok(()) on a 2xx status, the body is read only otherwise.
delete_on_response(status) == IF is_success(status) THEN "return" ELSE "json"

on_response(o, status) == IF o = "delete" THEN delete_on_response(status) ELSE "json"

\* ....json().await?; Ok(result?)
create_using_finish(b) ==
    LET r == json_entry(b) IN IF r.kind = "Err" THEN r ELSE into_result(r.value)

\* Faulty variant of list_finish: an error object is taken for an empty list.
list_finish_default_items(b) ==
    LET r == json_list(b)
    IN  IF r.kind = "Err" THEN r
        ELSE IF r.value.tag = "Success" THEN Ok(r.value.value.items) ELSE Ok(<<>>)

\* response.json::<Response<ListResponse<_>>>().await??.items
list_finish(b) ==
    LET r == json_list(b)
    IN  IF r.kind = "Err" THEN r
        ELSE LET q == into_result(r.value)
             IN  IF q.kind = "Err" THEN q ELSE Ok(q.value.items)

read_finish(b) ==
    LET r == json_entry(b) IN IF r.kind = "Err" THEN r ELSE into_result(r.value)

update_finish(b) ==
    LET r == json_entry(b) IN IF r.kind = "Err" THEN r ELSE into_result(r.value)

\* Faulty variant of delete_finish: unwrap() in place of `?`.
delete_finish_unwrap(b) ==
    LET r == json_error(b)
    IN  IF r.kind = "Err" THEN [kind |-> "Panic"] ELSE Err(Google(r.value))

\* Err(crate::Error::Google(response.json().await?))
delete_finish(b) ==
    LET r == json_error(b) IN IF r.kind = "Err" THEN r ELSE Err(Google(r.value))

finish(o, b) ==
    CASE o = "create_using" -> create_using_finish(b)
      [] o = "list" -> list_finish(b)
      [] o = "read" -> read_finish(b)
      [] o = "update" -> update_finish(b)
      [] o = "delete" -> delete_finish(b)

-----------------------------------------------------------------------------
(* Initial state: the handle is constructed, no call is running *)

Init ==
    /\ bucket_acl_url \in BaseUrls
    /\ pc = [c \in Calls |-> "idle"]
    /\ op = [c \in Calls |-> "none"]
    /\ arg = [c \in Calls |-> Nil]
    /\ url = [c \in Calls |-> <<>>]
    /\ headers = [c \in Calls |-> Nil]
    /\ request = [c \in Calls |-> <<>>]
    /\ response = [c \in Calls |-> Nil]
    /\ body = [c \in Calls |-> Nil]
    /\ trace = [c \in Calls |-> <<>>]
    /\ result = [c \in Calls |-> Nil]

-----------------------------------------------------------------------------
(* The operations, up to their first suspension point *)

\* A call starts: its url (if any) is built, get_headers() is called.
start(c, o, a, u) ==
    /\ pc[c] = "idle"
    /\ pc' = [pc EXCEPT ![c] = "get_headers"]
    /\ op' = [op EXCEPT ![c] = o]
    /\ arg' = [arg EXCEPT ![c] = a]
    /\ url' = [url EXCEPT ![c] = u]
    /\ trace' = [trace EXCEPT ![c] = Append(@, "get_headers")]
    /\ UNCHANGED <<headers, request, response, body, result>>

create_using(c, new_bucket_access_control) ==
    /\ start(c, "create_using", new_bucket_access_control, <<>>)
    /\ UNCHANGED bucket_acl_url

list(c) ==
    /\ start(c, "list", Nil, <<>>)
    /\ UNCHANGED bucket_acl_url

\* Faulty variant of read: the member URL is appended to the handle's field.
read_push_str(c, entity) ==
    /\ start(c, "read", entity, read_url(entity))
    /\ bucket_acl_url' = read_url(entity)

read(c, entity) ==
    /\ start(c, "read", entity, read_url(entity))
    /\ UNCHANGED bucket_acl_url

update(c, bucket_access_control) ==
    /\ start(c, "update", bucket_access_control, update_url(bucket_access_control))
    /\ UNCHANGED bucket_acl_url

delete(c, bucket_access_control) ==
    /\ start(c, "delete", bucket_access_control, delete_url(bucket_access_control))
    /\ UNCHANGED bucket_acl_url

-----------------------------------------------------------------------------
(* The suspension points *)

\* get_headers() answers Ok: the request is built and sent.
get_headers_ok(c) ==
    /\ pc[c] = "get_headers"
    /\ headers' = [headers EXCEPT ![c] = Ok(Unit)]
    /\ request' = [request EXCEPT ![c] = Append(@, build_request(c))]
    /\ trace' = [trace EXCEPT ![c] = Append(@, "send")]
    /\ pc' = [pc EXCEPT ![c] = "send"]
    /\ UNCHANGED <<bucket_acl_url, op, arg, url, response, body, result>>

\* Faulty variant of get_headers_err: the request is sent all the same.
get_headers_err_ignored(c, e) ==
    /\ pc[c] = "get_headers"
    /\ headers' = [headers EXCEPT ![c] = Err(e)]
    /\ request' = [request EXCEPT ![c] = Append(@, build_request(c))]
    /\ trace' = [trace EXCEPT ![c] = Append(@, "send")]
    /\ pc' = [pc EXCEPT ![c] = "send"]
    /\ UNCHANGED <<bucket_acl_url, op, arg, url, response, body, result>>

\* get_headers() answers Err(e): `?` returns it.
get_headers_err(c, e) ==
    /\ pc[c] = "get_headers"
    /\ headers' = [headers EXCEPT ![c] = Err(e)]
    /\ result' = [result EXCEPT ![c] = Err(e)]
    /\ pc' = [pc EXCEPT ![c] = "done"]
    /\ UNCHANGED <<bucket_acl_url, op, arg, url, request, response, body, trace>>

\* send() answers a response with this status.
send_ok(c, status) ==
    /\ pc[c] = "send"
    /\ response' = [response EXCEPT ![c] = Ok([status |-> status])]
    /\ IF on_response(op[c], status) = "return"
       THEN /\ result' = [result EXCEPT ![c] = Ok(Unit)]
            /\ pc' = [pc EXCEPT ![c] = "done"]
            /\ UNCHANGED trace
       ELSE /\ trace' = [trace EXCEPT ![c] = Append(@, "json")]
            /\ pc' = [pc EXCEPT ![c] = "json"]
            /\ UNCHANGED result
    /\ UNCHANGED <<bucket_acl_url, op, arg, url, headers, request, body>>

\* Faulty variant of send_err: the failed request is sent again.
send_err_retry(c) ==
    /\ pc[c] = "send"
    /\ Len(request[c]) < 3
    /\ response' = [response EXCEPT ![c] = Err(Transport)]
    /\ request' = [request EXCEPT ![c] = Append(@, build_request(c))]
    /\ trace' = [trace EXCEPT ![c] = Append(@, "send")]
    /\ UNCHANGED <<bucket_acl_url, pc, op, arg, url, headers, body, result>>

\* Faulty variant of send_err: the body is decoded all the same.
send_err_then_json(c) ==
    /\ pc[c] = "send"
    /\ response' = [response EXCEPT ![c] = Err(Transport)]
    /\ trace' = [trace EXCEPT ![c] = Append(@, "json")]
    /\ pc' = [pc EXCEPT ![c] = "json"]
    /\ UNCHANGED <<bucket_acl_url, op, arg, url, headers, request, body, result>>

\* send() fails before any response: `?` returns the transport error.
send_err(c) ==
    /\ pc[c] = "send"
    /\ response' = [response EXCEPT ![c] = Err(Transport)]
    /\ result' = [result EXCEPT ![c] = Err(Transport)]
    /\ pc' = [pc EXCEPT ![c] = "done"]
    /\ UNCHANGED <<bucket_acl_url, op, arg, url, headers, request, body, trace>>

\* json() has read body b: the operation finishes.
json_body(c, b) ==
    /\ pc[c] = "json"
    /\ body' = [body EXCEPT ![c] = b]
    /\ result' = [result EXCEPT ![c] = finish(op[c], b)]
    /\ pc' = [pc EXCEPT ![c] = "done"]
    /\ UNCHANGED <<bucket_acl_url, op, arg, url, headers, request, response, trace>>

-----------------------------------------------------------------------------
(* Specifications *)

\* One step of call c that resumes it from a suspension point.
resume(c, herrs, statuses, bodies) ==
    \/ get_headers_ok(c)
    \/ \E e \in herrs : get_headers_err(c, e)
    \/ \E s \in statuses : send_ok(c, s)
    \/ send_err(c)
    \/ \E b \in bodies : json_body(c, b)

\* An idle call site invokes one of the five operations.
invoke(c, ents, news, entries) ==
    /\ pc[c] = "idle"
    /\ \/ \E n \in news : create_using(c, n)
       \/ list(c)
       \/ \E e \in ents : read(c, e)
       \/ \E x \in entries : update(c, x)
       \/ \E x \in entries : delete(c, x)

\* One call site, every input.
Next ==
    \/ invoke(1, Entities, NewEntries, Entries)
    \/ resume(1, HeaderErrors, Statuses, Bodies)

Spec == Init /\ [][Next]_vars

\* NCalls call sites share the handle and interleave at the suspension points.
ConcNext ==
    \E c \in Calls :
        \/ invoke(c, ConcEntities, ConcNewEntries, ConcEntries)
        \/ resume(c, ConcHeaderErrors, ConcStatuses, ConcBodies)

ConcSpec == Init /\ [][ConcNext]_vars

-----------------------------------------------------------------------------
(* Helpers of the properties *)

Count(seq, x) == Cardinality({i \in 1 .. Len(seq) : seq[i] = x})
Has(seq, x) == \E i \in 1 .. Len(seq) : seq[i] = x
Started(c) == pc[c] # "idle"
Done(c) == pc[c] = "done"
Suspended(c) == pc[c] \in {"get_headers", "send", "json"}
GotResponse(c) == response[c].kind = "Ok"
BodyRead(c) == body[c] # Nil

\* The entity that addresses the member of a read, update or delete call.
EntityOf(c) == IF op[c] = "read" THEN arg[c] ELSE arg[c].entity

\* The inverse of percent-encoding on the escapes the model produces.
unhex(a, b) ==
    CASE <<a, b>> = <<"2", "F">> -> "/"
      [] <<a, b>> = <<"4", "0">> -> "@"
      [] <<a, b>> = <<"2", "5">> -> "%"
      [] <<a, b>> = <<"2", "0">> -> " "
      [] OTHER -> "?"

RECURSIVE percent_decode(_)
percent_decode(s) ==
    IF s = <<>> THEN <<>>
    ELSE IF Head(s) = "%" /\ Len(s) >= 3
         THEN <<unhex(s[2], s[3])>> \o percent_decode(SubSeq(s, 4, Len(s)))
         ELSE <<Head(s)>> \o percent_decode(Tail(s))

\* The outcome kinds a returned value belongs to.
OutcomeKinds(r) ==
    {k \in {"Success", "Api", "Transport", "Decode"} :
        \/ k = "Success" /\ r.kind = "Ok"
        \/ k = "Api" /\ r.kind = "Err" /\ r.error.variant = "Google"
        \/ k = "Transport" /\ r.kind = "Err" /\ r.error.variant = "Transport"
        \/ k = "Decode" /\ r.kind = "Err" /\ r.error.variant = "Decode"}

IsApi(r) == r.kind = "Err" /\ r.error.variant = "Google"

\* member(e) of the operation table, from the URL at construction.
Member(e) == bucket_acl_url \o <<"/">> \o percent_encode(to_string(e))

-----------------------------------------------------------------------------
(* Properties *)

\* C1: whatever the collaborators answer, a call that has returned holds
\* exactly one of {success value, Api error, Transport error, Decode error},
\* a call that has not returned holds none, and at every suspension point
\* every answer of the collaborator is taken.
C1_ExactlyOneOutcome ==
    \A c \in Calls :
        /\ Done(c) => Cardinality(OutcomeKinds(result[c])) = 1
        /\ ~Done(c) => result[c] = Nil
        /\ pc[c] = "get_headers" =>
              /\ ENABLED get_headers_ok(c)
              /\ \A e \in HeaderErrors : ENABLED get_headers_err(c, e)
        /\ pc[c] = "send" =>
              /\ ENABLED send_err(c)
              /\ \A s \in Statuses : ENABLED send_ok(c, s)
        /\ pc[c] = "json" => \A b \in Bodies : ENABLED json_body(c, b)

C1_Witness ==
    \E c \in Calls :
        /\ Done(c) /\ op[c] = "delete"
        /\ GotResponse(c) /\ response[c].value.status = 403
        /\ BodyRead(c) /\ body[c] = MalformedBody
        /\ OutcomeKinds(result[c]) = {"Decode"}

\* C2 as stated: every call that has returned issued exactly one HTTP request.
C2_ExactlyOneRequest == \A c \in Calls : Done(c) => Len(request[c]) = 1

\* C2 amended: a call never issues more than one HTTP request; a call that
\* has returned issued exactly one if get_headers() succeeded and none if it
\* failed; a failed request is never sent again.
C2_AtMostOneRequest ==
    \A c \in Calls :
        /\ Len(request[c]) <= 1
        /\ Count(trace[c], "send") = Len(request[c])
        /\ Done(c) => (Len(request[c]) = 1 <=> headers[c].kind = "Ok")
        /\ response[c].kind = "Err" => Done(c) /\ Len(request[c]) = 1

C2_Witness ==
    \E c \in Calls :
        Done(c) /\ response[c] = Err(Transport) /\ Len(request[c]) = 1

\* C3: every request a call issues is the one of the operation table: POST
\* collection with the new entry, GET collection, GET member(entity), PUT
\* member(entry.entity) with the full entry, DELETE member(entry.entity).
C3_RequestTable ==
    \A c \in Calls :
        \A i \in 1 .. Len(request[c]) :
            request[c][i] =
                CASE op[c] = "create_using" ->
                        [verb |-> "POST", url |-> bucket_acl_url, body |-> arg[c]]
                  [] op[c] = "list" ->
                        [verb |-> "GET", url |-> bucket_acl_url, body |-> Nil]
                  [] op[c] = "read" ->
                        [verb |-> "GET", url |-> Member(arg[c]), body |-> Nil]
                  [] op[c] = "update" ->
                        [verb |-> "PUT", url |-> Member(arg[c].entity), body |-> arg[c]]
                  [] op[c] = "delete" ->
                        [verb |-> "DELETE", url |-> Member(arg[c].entity), body |-> Nil]

C3_Witness ==
    \E c \in Calls :
        /\ op[c] = "update" /\ Len(request[c]) = 1
        /\ arg[c].entity = Group(<<"a", "/">>) /\ arg[c].role = "OWNER"

C5_DeleteNon2xxIsApi ==
    \A c \in Calls :
        ( /\ Done(c) /\ op[c] = "delete"
          /\ GotResponse(c) /\ ~is_success(response[c].value.status) )
        => IsApi(result[c])

\* C6: once delete has a response, it returns unit iff the status is 2xx; on
\* 2xx it returns at once and json() is never called; json() is called only
\* on a non-2xx status.
C6_DeleteByStatus ==
    \A c \in Calls :
        (op[c] = "delete" /\ GotResponse(c)) =>
            LET ok == is_success(response[c].value.status)
            IN  /\ Done(c) => (result[c] = Ok(Unit) <=> ok)
                /\ ok => Done(c) /\ ~Has(trace[c], "json") /\ ~BodyRead(c)
                /\ Has(trace[c], "json") => ~ok
                /\ ~ok => Has(trace[c], "json")

C6_Witness ==
    \E c \in Calls :
        /\ op[c] = "delete" /\ GotResponse(c) /\ response[c].value.status = 204
        /\ result[c] = Ok(Unit)

\* C7: when send() fails, the call has returned the Transport error and
\* json() was never called.
C7_TransportShortCircuit ==
    \A c \in Calls :
        response[c].kind = "Err" =>
            /\ Done(c) /\ result[c] = Err(Transport)
            /\ ~Has(trace[c], "json") /\ ~BodyRead(c)

C7_Witness ==
    \E c \in Calls :
        /\ op[c] = "create_using" /\ response[c] = Err(Transport)
        /\ result[c] = Err(Transport)

\* C8: a request is issued only after get_headers() has answered Ok; when it
\* answers Err the call has returned that very error, with no request sent
\* and no body decoded.
C8_HeadersFirst ==
    \A c \in Calls :
        /\ request[c] # <<>> =>
              /\ headers[c].kind = "Ok"
              /\ Len(trace[c]) >= 2
              /\ trace[c][1] = "get_headers" /\ trace[c][2] = "send"
        /\ headers[c].kind = "Err" =>
              /\ Done(c) /\ result[c] = headers[c]
              /\ request[c] = <<>> /\ trace[c] = <<"get_headers">>
              /\ response[c] = Nil /\ ~BodyRead(c)

C8_Witness ==
    \E c \in Calls :
        /\ op[c] = "update" /\ headers[c] = Err(Decode)
        /\ result[c] = Err(Decode)

\* C9: the URL read, update and delete build and send is the collection URL,
\* one '/', and one segment without '/', which percent-decodes to the
\* entity's canonical string.
C9_MemberRoundTrip ==
    \A c \in Calls :
        (Started(c) /\ op[c] \in {"read", "update", "delete"}) =>
            LET n == Len(bucket_acl_url)
                seg == SubSeq(url[c], n + 2, Len(url[c]))
            IN  /\ Len(url[c]) > n + 1
                /\ SubSeq(url[c], 1, n) = bucket_acl_url
                /\ url[c][n + 1] = "/"
                /\ ~Has(seg, "/")
                /\ percent_decode(seg) = to_string(EntityOf(c))
                /\ \A i \in 1 .. Len(request[c]) : request[c][i].url = url[c]

C9_Witness ==
    \E c \in Calls :
        /\ op[c] = "delete" /\ Len(request[c]) = 1
        /\ arg[c].entity = User(<<"/", "%">>)

\* What a call returns when it runs alone with these collaborator answers.
AloneResult(o, h, r, b) ==
    IF h.kind = "Err" THEN h
    ELSE IF r.kind = "Err" THEN r
    ELSE IF o = "delete" /\ is_success(r.value.status) THEN Ok(Unit)
    ELSE finish(o, b)

\* What a call sends when it runs alone.
AloneRequest(o, a) ==
    CASE o = "create_using" -> [verb |-> "POST", url |-> bucket_acl_url, body |-> a]
      [] o = "list" -> [verb |-> "GET", url |-> bucket_acl_url, body |-> Nil]
      [] o = "read" -> [verb |-> "GET", url |-> Member(a), body |-> Nil]
      [] o = "update" -> [verb |-> "PUT", url |-> Member(a.entity), body |-> a]
      [] o = "delete" -> [verb |-> "DELETE", url |-> Member(a.entity), body |-> Nil]

\* No call waits on another: an idle call site can invoke, a suspended call
\* resumes on its collaborator's answer, whatever the other calls do.
NoWaiting ==
    \A c \in Calls :
        /\ pc[c] = "idle" => ENABLED invoke(c, ConcEntities, ConcNewEntries, ConcEntries)
        /\ pc[c] = "get_headers" => ENABLED get_headers_ok(c)
        /\ pc[c] = "send" => \A s \in ConcStatuses : ENABLED send_ok(c, s)
        /\ pc[c] = "json" => \A b \in ConcBodies : ENABLED json_body(c, b)

Isolated ==
    \A c \in Calls :
        /\ request[c] # <<>> => request[c] = <<AloneRequest(op[c], arg[c])>>
        /\ Done(c) => result[c] = AloneResult(op[c], headers[c], response[c], body[c])

\* C10: under any interleaving of the calls on one handle, the collection
\* URL is never modified, no call waits on another, and each call sends the
\* request and returns the outcome it would alone.
C10_ConcurrentUse ==
    /\ [](NoWaiting /\ Isolated)
    /\ [][bucket_acl_url' = bucket_acl_url]_vars

C10_Witness ==
    \E c, d \in Calls :
        /\ c # d
        /\ op[c] = "read" /\ pc[c] = "json"
        /\ op[d] = "update" /\ pc[d] = "send"
        /\ url[c] = url[d]

=============================================================================
